---- MODULE Spec2Model ----
(***************************************************************************)
(* Model of cssSelectorBuilder (src/src/05-objects-tasks.js, lines 113-285)*)
(*                                                                         *)
(* JavaScript strings are sequences of one-character strings.  A property  *)
(* value is a tagged record so that a missing property (undefined) is      *)
(* distinct from the empty string; both are falsy, and undefined           *)
(* concatenates as the text "undefined".                                   *)
(*                                                                         *)
(* heap     : the objects built so far (Selector and Combine instances),   *)
(*            addressed by their index;                                    *)
(* validArr : cssSelectorBuilder.validArr, one array shared by all         *)
(*            instances;                                                   *)
(* hist     : per object, the record of the append calls made on it        *)
(*            (kind, payload, whether the call returned);                  *)
(* last     : the most recent facade or method call and its outcome.       *)
(***************************************************************************)
EXTENDS Integers, Sequences, FiniteSets

VARIABLES heap, validArr, hist, last

vars == <<heap, validArr, hist, last>>

\* ---- bounds -------------------------------------------------------------
\* Spec: at most MaxSteps facade and method calls, payloads '' and 'a',
\* combinators ' ' and '+'.  SpecDeep: longer runs over one payload and one
\* combinator.
MaxSteps == 3
DeepSteps == 4
\* SpecCheck: validArrCheck applied to every array of at most MaxArrLen kinds
MaxArrLen == 3

\* ---- inputs -------------------------------------------------------------
Payloads == { <<>>, <<"a">> }
Combinators == { <<" ">>, <<"+">> }
Bounds == [steps |-> MaxSteps, payloads |-> Payloads, combinators |-> Combinators]
DeepBounds == [steps |-> DeepSteps, payloads |-> { <<"a">> }, combinators |-> { <<"+">> }]

\* ---- JavaScript values ---------------------------------------------------
Undefined == [undef |-> TRUE, str |-> <<>>]
Str(s) == [undef |-> FALSE, str |-> s]
Truthy(v) == (~v.undef) /\ v.str # <<>>
ToString(v) == IF v.undef THEN <<"u","n","d","e","f","i","n","e","d">> ELSE v.str
\* x += y on strings
PlusAssign(x, y) == Str(ToString(x) \o ToString(y))

\* Array.prototype.indexOf / lastIndexOf (0-based, -1 when absent)
indexOf(arr, item) ==
  IF \E i \in 1..Len(arr) : arr[i] = item
  THEN (CHOOSE i \in 1..Len(arr) : arr[i] = item /\ \A j \in 1..(i-1) : arr[j] # item) - 1
  ELSE -1

lastIndexOf(arr, item) ==
  IF \E i \in 1..Len(arr) : arr[i] = item
  THEN (CHOOSE i \in 1..Len(arr) : arr[i] = item /\ \A j \in (i+1)..Len(arr) : arr[j] # item) - 1
  ELSE -1

\* Array.prototype.slice(idx) with a 0-based start
slice(arr, idx) == SubSeq(arr, idx + 1, Len(arr))

\* ---- SelectorClassConstructor --------------------------------------------
sampleOccur == <<"element", "id", "pseudoElement">>

sampleOrder == <<"element", "id", "class", "attr", "pseudoClass", "pseudoElement">>

\* first forEach of validArrCheck: TRUE when it throws
occurThrows(arr) ==
  \E n \in 1..Len(sampleOccur) :
    indexOf(arr, sampleOccur[n]) # lastIndexOf(arr, sampleOccur[n])

\* the order check comparing the last occurrence of the lower kind
orderThrows_lastOccurrence(arr) ==
  \E idx \in 0..(Len(sampleOrder) - 1) :
    LET item == sampleOrder[idx + 1]
        rest == slice(sampleOrder, idx)
    IN \E m \in 1..Len(rest) :
         /\ indexOf(arr, rest[m]) # -1
         /\ lastIndexOf(arr, item) > indexOf(arr, rest[m])

\* second forEach of validArrCheck: TRUE when it throws
orderThrows(arr) ==
  \E idx \in 0..(Len(sampleOrder) - 1) :
    LET item == sampleOrder[idx + 1]
        rest == slice(sampleOrder, idx)
    IN \E m \in 1..Len(rest) :
         /\ indexOf(arr, rest[m]) # -1
         /\ indexOf(arr, item) > indexOf(arr, rest[m])

\* validArrCheck(arr): TRUE when it returns, FALSE when it throws
validArrCheck(arr) == ~occurThrows(arr) /\ ~orderThrows(arr)

\* the last two statements before `return this` of every append method:
\* push the kind on the shared array, then validate the shared array
pushAndCheck(this, arr, name) ==
  [this |-> this, validArr |-> Append(arr, name),
   threw |-> ~validArrCheck(Append(arr, name))]

element(this, arr, str) ==
  pushAndCheck([this EXCEPT !.classResStr = PlusAssign(@, Str(str))], arr, "element")

\* id() rendering its piece with the class prefix
id_wrongPrefix(this, arr, str) ==
  pushAndCheck([this EXCEPT !.classResStr = PlusAssign(@, Str(<<".">> \o str))], arr, "id")

id(this, arr, str) ==
  pushAndCheck([this EXCEPT !.classResStr = PlusAssign(@, Str(<<"#">> \o str))], arr, "id")

class(this, arr, str) ==
  pushAndCheck([this EXCEPT !.classResStr = PlusAssign(@, Str(<<".">> \o str))], arr, "class")

attr(this, arr, str) ==
  pushAndCheck([this EXCEPT !.classResStr = PlusAssign(@, Str(<<"[">> \o str \o <<"]">>))], arr, "attr")

pseudoClass(this, arr, str) ==
  pushAndCheck([this EXCEPT !.classResStr = PlusAssign(@, Str(<<":">> \o str))], arr, "pseudoClass")

pseudoElement(this, arr, str) ==
  pushAndCheck([this EXCEPT !.classResStr = PlusAssign(@, Str(<<":", ":">> \o str))], arr, "pseudoElement")

\* this[method](value)
invoke(method, this, arr, value) ==
  CASE method = "element" -> element(this, arr, value)
    [] method = "id" -> id(this, arr, value)
    [] method = "class" -> class(this, arr, value)
    [] method = "attr" -> attr(this, arr, value)
    [] method = "pseudoClass" -> pseudoClass(this, arr, value)
    [] method = "pseudoElement" -> pseudoElement(this, arr, value)

\* the constructor leaving classResStr unset before the seeding call
SelectorClassConstructor_noInit(method, value) ==
  invoke(method,
         [cls |-> "Selector", classResStr |-> Undefined, combResStr |-> Undefined,
          selector1 |-> 0, combinator |-> <<>>, selector2 |-> 0],
         <<>>, value)

\* new (SelectorClassConstructor(method, value))(): the constructor body
SelectorClassConstructor(method, value) ==
  invoke(method,
         [cls |-> "Selector", classResStr |-> Str(<<>>), combResStr |-> Undefined,
          selector1 |-> 0, combinator |-> <<>>, selector2 |-> 0],
         <<>>, value)

\* ---- CombineClassConstructor ---------------------------------------------
\* combine() rejecting an operand that has neither a non-empty classResStr
\* nor a non-empty combResStr
combine_rejectFalsy(this, sel1, comb, sel2) ==
  LET txt(sel) == IF Truthy(sel.classResStr) THEN sel.classResStr ELSE sel.combResStr
  IN [this |-> [this EXCEPT !.combResStr =
                  PlusAssign(PlusAssign(PlusAssign(this.combResStr, txt(sel1)),
                                        Str(<<" ">> \o comb \o <<" ">>)), txt(sel2))],
      threw |-> ~Truthy(txt(sel1)) \/ ~Truthy(txt(sel2))]

\* combine(sel1, comb, sel2) of the Combine class; this.combResStr is '' on entry
combine(this, sel1, comb, sel2) ==
  LET s1 == IF Truthy(sel1.classResStr)
            THEN PlusAssign(this.combResStr, sel1.classResStr)
            ELSE PlusAssign(this.combResStr, sel1.combResStr)
      s2 == PlusAssign(s1, Str(<<" ">> \o comb \o <<" ">>))
      s3 == IF Truthy(sel2.classResStr)
            THEN PlusAssign(s2, sel2.classResStr)
            ELSE PlusAssign(s2, sel2.combResStr)
  IN [this |-> [this EXCEPT !.combResStr = s3], threw |-> FALSE]

\* the Combine constructor clearing the shared array as the Selector
\* constructor does
CombineClassConstructor_resetArr(h, arr, selector1, combinator, selector2) ==
  LET r == combine([cls |-> "Combine", classResStr |-> Undefined, combResStr |-> Str(<<>>),
                    selector1 |-> selector1, combinator |-> combinator,
                    selector2 |-> selector2],
                   h[selector1], combinator, h[selector2])
  IN [heap |-> IF r.threw THEN h ELSE Append(h, r.this),
      validArr |-> <<>>, threw |-> r.threw]

\* new (CombineClassConstructor(selector1, combinator, selector2))() on heap h
\* with shared array arr; selector1 and selector2 are references into h
CombineClassConstructor(h, arr, selector1, combinator, selector2) ==
  LET r == combine([cls |-> "Combine", classResStr |-> Undefined, combResStr |-> Str(<<>>),
                    selector1 |-> selector1, combinator |-> combinator,
                    selector2 |-> selector2],
                   h[selector1], combinator, h[selector2])
  IN [heap |-> IF r.threw THEN h ELSE Append(h, r.this),
      validArr |-> arr, threw |-> r.threw]

\* stringify() of either class
stringify(o) ==
  IF o.cls = "Selector" THEN ToString(o.classResStr) ELSE ToString(o.combResStr)

\* ---- state machine -------------------------------------------------------
RECURSIVE SumCalls(_, _)
SumCalls(h, n) == IF n = 0 THEN 0 ELSE (Len(h[n]) - 1) + SumCalls(h, n - 1)
\* number of chained append calls made so far (the seeding calls excluded)
NumCalls == SumCalls(hist, Len(hist))
\* number of facade and method calls made so far
NumSteps == Len(heap) + NumCalls

Selectors == { o \in 1..Len(heap) : heap[o].cls = "Selector" }

NoCall == [op |-> "none", target |-> 0, kind |-> "", threw |-> FALSE, before |-> <<>>]

Init ==
  /\ heap = <<>>
  /\ validArr = <<>>
  /\ hist = <<>>
  /\ last = NoCall

\* cssSelectorBuilder.<method>(value): build a Selector seeded with one piece
Facade(method, value) ==
  LET r == SelectorClassConstructor(method, value)
  IN /\ validArr' = r.validArr
     /\ heap' = IF r.threw THEN heap ELSE Append(heap, r.this)
     /\ hist' = IF r.threw THEN hist
                ELSE Append(hist, << [kind |-> method, value |-> value, ok |-> TRUE] >>)
     /\ last' = [op |-> "new", target |-> IF r.threw THEN 0 ELSE Len(heap) + 1,
                 kind |-> method, threw |-> r.threw, before |-> <<>>]

cssSelectorBuilder_element(b) ==
  NumSteps < b.steps /\ \E value \in b.payloads : Facade("element", value)
cssSelectorBuilder_id(b) ==
  NumSteps < b.steps /\ \E value \in b.payloads : Facade("id", value)
cssSelectorBuilder_class(b) ==
  NumSteps < b.steps /\ \E value \in b.payloads : Facade("class", value)
cssSelectorBuilder_attr(b) ==
  NumSteps < b.steps /\ \E value \in b.payloads : Facade("attr", value)
cssSelectorBuilder_pseudoClass(b) ==
  NumSteps < b.steps /\ \E value \in b.payloads : Facade("pseudoClass", value)
cssSelectorBuilder_pseudoElement(b) ==
  NumSteps < b.steps /\ \E value \in b.payloads : Facade("pseudoElement", value)

\* an append that also re-renders the Combine nodes built on o, as if a node
\* serialized its operands on demand
Call_liveNodes(o, method, str) ==
  LET r == invoke(method, heap[o], validArr, str)
      now(x) == IF x = o THEN r.this ELSE heap[x]
  IN /\ validArr' = r.validArr
     /\ heap' = [c \in 1..Len(heap) |->
                  IF c = o THEN r.this
                  ELSE IF heap[c].cls = "Combine" /\ o \in {heap[c].selector1, heap[c].selector2}
                       THEN combine([heap[c] EXCEPT !.combResStr = Str(<<>>)],
                                    now(heap[c].selector1), heap[c].combinator,
                                    now(heap[c].selector2)).this
                       ELSE heap[c]]
     /\ hist' = [hist EXCEPT ![o] = Append(@, [kind |-> method, value |-> str, ok |-> ~r.threw])]
     /\ last' = [op |-> "call", target |-> o, kind |-> method,
                 threw |-> r.threw, before |-> stringify(heap[o])]

\* selector.<method>(str) on an existing Selector instance o; the caller
\* catches a thrown error and keeps its reference to o
Call(o, method, str) ==
  LET r == invoke(method, heap[o], validArr, str)
  IN /\ validArr' = r.validArr
     /\ heap' = [heap EXCEPT ![o] = r.this]
     /\ hist' = [hist EXCEPT ![o] = Append(@, [kind |-> method, value |-> str, ok |-> ~r.threw])]
     /\ last' = [op |-> "call", target |-> o, kind |-> method,
                 threw |-> r.threw, before |-> stringify(heap[o])]

Selector_element(b) ==
  NumSteps < b.steps /\ \E o \in Selectors, str \in b.payloads : Call(o, "element", str)
Selector_id(b) ==
  NumSteps < b.steps /\ \E o \in Selectors, str \in b.payloads : Call(o, "id", str)
Selector_class(b) ==
  NumSteps < b.steps /\ \E o \in Selectors, str \in b.payloads : Call(o, "class", str)
Selector_attr(b) ==
  NumSteps < b.steps /\ \E o \in Selectors, str \in b.payloads : Call(o, "attr", str)
Selector_pseudoClass(b) ==
  NumSteps < b.steps /\ \E o \in Selectors, str \in b.payloads : Call(o, "pseudoClass", str)
Selector_pseudoElement(b) ==
  NumSteps < b.steps /\ \E o \in Selectors, str \in b.payloads : Call(o, "pseudoElement", str)

\* cssSelectorBuilder.combine(selector1, combinator, selector2)
cssSelectorBuilder_combine(b) ==
  /\ NumSteps < b.steps
  /\ \E selector1 \in 1..Len(heap), selector2 \in 1..Len(heap), combinator \in b.combinators :
       LET r == CombineClassConstructor(heap, validArr, selector1, combinator, selector2)
       IN /\ heap' = r.heap
          /\ validArr' = r.validArr
          /\ hist' = IF r.threw THEN hist
                     ELSE Append(hist, << [kind |-> "combine", value |-> combinator, ok |-> TRUE] >>)
          /\ last' = [op |-> "combine", target |-> IF r.threw THEN 0 ELSE Len(heap) + 1,
                      kind |-> "combine", threw |-> r.threw, before |-> <<>>]

Step(b) ==
  \/ cssSelectorBuilder_element(b)
  \/ cssSelectorBuilder_id(b)
  \/ cssSelectorBuilder_class(b)
  \/ cssSelectorBuilder_attr(b)
  \/ cssSelectorBuilder_pseudoClass(b)
  \/ cssSelectorBuilder_pseudoElement(b)
  \/ Selector_element(b)
  \/ Selector_id(b)
  \/ Selector_class(b)
  \/ Selector_attr(b)
  \/ Selector_pseudoClass(b)
  \/ Selector_pseudoElement(b)
  \/ cssSelectorBuilder_combine(b)

Next == Step(Bounds)

Spec == Init /\ [][Next]_vars

NextDeep == Step(DeepBounds)

SpecDeep == Init /\ [][NextDeep]_vars

\* validArrCheck on its own: every array of kinds the append methods can
\* have pushed, then one call of validArrCheck on it
KindArrays == UNION { [1..m -> { sampleOrder[n] : n \in 1..Len(sampleOrder) }] : m \in 0..MaxArrLen }

InitCheck ==
  /\ heap = <<>>
  /\ validArr \in KindArrays
  /\ hist = <<>>
  /\ last = NoCall

validArrCheck_call ==
  /\ last.op = "none"
  /\ last' = [op |-> "check", target |-> 0, kind |-> "",
              threw |-> ~validArrCheck(validArr), before |-> <<>>]
  /\ UNCHANGED <<heap, validArr, hist>>

NextCheck == validArrCheck_call

SpecCheck == InitCheck /\ [][NextCheck]_vars

TypeOK ==
  /\ Len(hist) = Len(heap)
  /\ NumSteps <= DeepSteps

\* ---- the selector rules as the specification states them ------------------
AllKinds == {"element", "id", "class", "attr", "pseudoClass", "pseudoElement"}
SingletonKinds == {"element", "id", "pseudoElement"}
RepeatableKinds == {"class", "attr", "pseudoClass"}

Rank(k) ==
  CASE k = "element" -> 1 [] k = "id" -> 2 [] k = "class" -> 3
    [] k = "attr" -> 4 [] k = "pseudoClass" -> 5 [] k = "pseudoElement" -> 6

SingletonOK(ks) ==
  \A i, j \in 1..Len(ks) : (i < j /\ ks[i] = ks[j]) => ks[i] \notin SingletonKinds

OrderOK(ks) == \A i, j \in 1..Len(ks) : i < j => Rank(ks[i]) <= Rank(ks[j])

RulesOK(ks) == SingletonOK(ks) /\ OrderOK(ks)

KindsOf(h) == [i \in 1..Len(h) |-> h[i].kind]
IsOk(p) == p.ok
AcceptedKinds(h) == KindsOf(SelectSeq(h, IsOk))
\* the calls made on the target of the last call before that call
Prior == SubSeq(hist[last.target], 1, Len(hist[last.target]) - 1)

RenderedPiece(p) ==
  CASE p.kind = "element" -> p.value
    [] p.kind = "id" -> <<"#">> \o p.value
    [] p.kind = "class" -> <<".">> \o p.value
    [] p.kind = "attr" -> <<"[">> \o p.value \o <<"]">>
    [] p.kind = "pseudoClass" -> <<":">> \o p.value
    [] p.kind = "pseudoElement" -> <<":", ":">> \o p.value

RECURSIVE ConcatPieces(_)
ConcatPieces(h) == IF h = <<>> THEN <<>> ELSE RenderedPiece(Head(h)) \o ConcatPieces(Tail(h))

\* C1: for every Selector whose sequence of append calls (the seeding call
\* included) respects the singleton and ordering rules, stringify() is the
\* concatenation, in call order and without separators, of the rendered
\* pieces (v, #v, .v, [v], :v, ::v).
C1_StringifyIsConcatenation ==
  \A o \in Selectors :
    RulesOK(KindsOf(hist[o])) => stringify(heap[o]) = ConcatPieces(hist[o])

\* a Selector built by three rule-respecting calls that all returned, with an
\* id piece and a non-empty payload
C1_Witness ==
  \E o \in Selectors :
    /\ Len(hist[o]) = 3
    /\ RulesOK(KindsOf(hist[o]))
    /\ \A i \in 1..3 : hist[o][i].ok
    /\ \E i \in 1..3 : hist[o][i].kind = "id" /\ hist[o][i].value # <<>>
    /\ last.op = "call" /\ last.target = o

\* C2: an append that makes element, id or pseudoElement occur a second time
\* among the target's own accepted pieces raises at that call.
C2_DuplicateSingletonRaises ==
  (/\ last.op = "call"
   /\ last.kind \in SingletonKinds
   /\ \E i \in 1..Len(AcceptedKinds(Prior)) : AcceptedKinds(Prior)[i] = last.kind)
  => last.threw

\* C3: an append of kind X on a Selector that already holds an accepted piece
\* of strictly higher precedence raises, so the accepted kinds of every
\* Selector are non-decreasing in precedence.
C3_OutOfOrderRaises ==
  /\ (/\ last.op = "call"
      /\ \E i \in 1..Len(AcceptedKinds(Prior)) :
           Rank(AcceptedKinds(Prior)[i]) > Rank(last.kind))
     => last.threw
  /\ \A o \in Selectors : OrderOK(AcceptedKinds(hist[o]))

\* C4: when an append raises, stringify() of the target after the call equals
\* stringify() of the target before the call.
C4_FailedAppendLeavesString ==
  (last.op = "call" /\ last.threw) => stringify(heap[last.target]) = last.before

\* C5: the node returned by combine(left, token, right) has stringify() equal
\* to left.stringify() + ' ' + token + ' ' + right.stringify().
C5_CombineString ==
  (last.op = "combine" /\ ~last.threw) =>
    LET node == heap[last.target]
    IN stringify(node) = stringify(heap[node.selector1]) \o <<" ">> \o node.combinator
                           \o <<" ">> \o stringify(heap[node.selector2])

\* C6: whether an append on a Selector is accepted depends only on the calls
\* made on that Selector before: two appends of the same kind, on Selectors
\* with the same earlier kinds and outcomes, have the same outcome.
C6_ValidationPerInstance ==
  \A s, t \in Selectors :
    \A i \in 2..Len(hist[s]), j \in 2..Len(hist[t]) :
      (/\ i = j
       /\ \A n \in 1..(i - 1) : hist[s][n].kind = hist[t][n].kind /\ hist[s][n].ok = hist[t][n].ok
       /\ hist[s][i].kind = hist[t][j].kind)
      => hist[s][i].ok = hist[t][j].ok

\* C7: an append whose kind, placed after the target's own accepted kinds,
\* satisfies the singleton rule and the ordering rule does not raise.
C7_LegalAppendAccepted ==
  (last.op = "call" /\ RulesOK(Append(AcceptedKinds(Prior), last.kind))) => ~last.threw

\* C8: appending class (attr, pseudoClass) to a Selector whose last accepted
\* piece is of that same kind never raises.
C8_RepeatableAccepted ==
  (/\ last.op = "call"
   /\ last.kind \in RepeatableKinds
   /\ AcceptedKinds(Prior) # <<>>
   /\ AcceptedKinds(Prior)[Len(AcceptedKinds(Prior))] = last.kind)
  => ~last.threw

\* C9: combine(left, token, right) never raises, whatever the operands (a
\* Selector or a Combine node) and the token, and returns a new node.
C9_CombineNeverRaises ==
  last.op = "combine" =>
    /\ ~last.threw
    /\ last.target = Len(heap)
    /\ heap[last.target].cls = "Combine"

\* combine has been called with a Selector whose text is empty and with a
\* Combine node as operands
C9_Witness ==
  /\ last.op = "combine"
  /\ heap[heap[last.target].selector1].cls = "Combine"
  /\ heap[heap[last.target].selector2].cls = "Selector"
  /\ stringify(heap[heap[last.target].selector2]) = <<>>

\* C10: a combine call leaves every object built before it as it was: the
\* stringify() result of each is the same, and every append on each Selector
\* is accepted or rejected after the call as it would have been before.
C10_CombineLeavesOperands ==
  [][ last'.op = "combine" =>
        \A o \in 1..Len(heap) :
          /\ stringify(heap'[o]) = stringify(heap[o])
          /\ heap[o].cls = "Selector" =>
               \A k \in AllKinds :
                 invoke(k, heap'[o], validArr', <<>>).threw
                   = invoke(k, heap[o], validArr, <<>>).threw ]_vars

\* one Selector is the operand of two Combine nodes
C10_Witness ==
  /\ last.op = "combine"
  /\ \E c, d \in 1..Len(heap) :
       /\ c # d
       /\ heap[c].cls = "Combine" /\ heap[d].cls = "Combine"
       /\ heap[c].selector1 = heap[d].selector1
       /\ heap[heap[c].selector1].cls = "Selector"

\* C11: a facade constructor call never raises and returns a new Selector
\* whose stringify() is the rendering of the one seeded piece, and leaves the
\* stringify() result of every object built before as it was.
C11_FacadeSeedsOnePiece ==
  [][ last'.op = "new" =>
        /\ ~last'.threw
        /\ Len(heap') = Len(heap) + 1
        /\ last'.target = Len(heap')
        /\ heap'[last'.target].cls = "Selector"
        /\ Len(hist'[last'.target]) = 1
        /\ hist'[last'.target][1].kind = last'.kind
        /\ stringify(heap'[last'.target]) = RenderedPiece(hist'[last'.target][1])
        /\ \A o \in 1..Len(heap) : stringify(heap'[o]) = stringify(heap[o]) ]_vars

\* a facade constructor has been called after an earlier Selector was built
\* and appended to
C11_Witness ==
  /\ last.op = "new"
  /\ ~last.threw
  /\ stringify(heap[last.target]) # <<>>
  /\ \E o \in Selectors : o < last.target /\ Len(hist[o]) >= 2

\* C12: after a rejected append, a later append on the same Selector is
\* accepted or rejected exactly as it would be on a Selector holding only the
\* pieces accepted before: validation of those kinds followed by the new one.
C12_RejectedAppendForgotten ==
  (/\ last.op = "call"
   /\ \E i \in 1..Len(Prior) : ~Prior[i].ok)
  => (last.threw <=> ~validArrCheck(Append(AcceptedKinds(Prior), last.kind)))

\* the kinds of arr, each kept at its first occurrence
RECURSIVE Compress(_)
Compress(arr) ==
  IF arr = <<>> THEN <<>>
  ELSE LET c == Compress(SubSeq(arr, 1, Len(arr) - 1))
           x == arr[Len(arr)]
       IN IF \E i \in 1..Len(c) : c[i] = x THEN c ELSE Append(c, x)

RECURSIVE IsSubsequence(_, _)
IsSubsequence(s, t) ==
  IF s = <<>> THEN TRUE
  ELSE IF t = <<>> THEN FALSE
  ELSE IF Head(s) = Head(t) THEN IsSubsequence(Tail(s), Tail(t))
  ELSE IsSubsequence(s, Tail(t))

CanonicalOrder == <<"element", "id", "class", "attr", "pseudoClass", "pseudoElement">>

Occurrences(arr, k) == Cardinality({ i \in 1..Len(arr) : arr[i] = k })

IsOperand(o) ==
  \E c \in 1..Len(heap) :
    heap[c].cls = "Combine" /\ o \in {heap[c].selector1, heap[c].selector2}

\* C14 as stated: an append (accepted or rejected) on an operand of a Combine
\* node changes the operand's own stringify() result and never the node's.
C14_AppendChangesOperandOnly ==
  [][ (last'.op = "call" /\ IsOperand(last'.target)) =>
        /\ stringify(heap'[last'.target]) # stringify(heap[last'.target])
        /\ \A c \in 1..Len(heap) :
             heap[c].cls = "Combine" => stringify(heap'[c]) = stringify(heap[c]) ]_vars

\* C14 as amended: an append (accepted or rejected) on an operand of a Combine
\* node appends the rendered piece to the operand's own stringify() result,
\* which changes unless the piece renders as the empty string, and never
\* changes the stringify() result of any Combine node.
C14_NodeStringFixed ==
  [][ (last'.op = "call" /\ IsOperand(last'.target)) =>
        LET t == last'.target
            piece == RenderedPiece(hist'[t][Len(hist'[t])])
        IN /\ stringify(heap'[t]) = stringify(heap[t]) \o piece
           /\ (stringify(heap'[t]) = stringify(heap[t])) <=> (piece = <<>>)
           /\ \A c \in 1..Len(heap) :
                heap[c].cls = "Combine" => stringify(heap'[c]) = stringify(heap[c]) ]_vars

\* a rejected append has changed the text of a Selector that is an operand of
\* a Combine node
C14_Witness ==
  /\ last.op = "call"
  /\ last.threw
  /\ IsOperand(last.target)
  /\ stringify(heap[last.target]) # last.before

====
